---- MODULE Spec2Model ----
(***************************************************************************)
(* Smart Home Energy dashboard: the three Streamlit scripts app.py,        *)
(* app2.py and app3.py.  A session is a sequence of script runs (render    *)
(* cycles) over one loaded CSV; every widget change reruns the script      *)
(* from its first line.  One run is: load_data, preprocessing, sidebar     *)
(* widgets and filters, metrics, charts, motion pivot, room tabs, latest   *)
(* table, download.                                                        *)
(*                                                                         *)
(* Encoding of cells.  A timestamp is the number of hours since the first  *)
(* midnight of the data (DateOf and HourOf split it).  A DateTime cell is  *)
(* a timestamp or BadText (text pd.to_datetime cannot parse).  An energy   *)
(* cell is a number >= 0, NaN (empty cell) or Text (non-numeric text).     *)
(* sort_values is modelled as a stable sort.                               *)
(*                                                                         *)
(* cached: load_data's memoized raw frame exists.  normalized: the         *)
(* preprocessing lines have been executed on the frame of the present      *)
(* load (the last read of the CSV).                                        *)
(***************************************************************************)
EXTENDS Integers, Sequences, FiniteSets, TLC

VARIABLES variant, cols, raw, criteria, pc, status, msg, df, dfcols,
          data, metrics, pivot, latest, rendered, cached, normalized

vars == <<variant, cols, raw, criteria, pc, status, msg, df, dfcols,
          data, metrics, pivot, latest, rendered, cached, normalized>>

----------------------------------------------------------------------------
(* Bounds of the checked inputs *)

MaxRows == 2
MaxLong == 21

----------------------------------------------------------------------------
(* Cell values *)

NaT == -1
BadText == -2
NaN == -1
Text == -2
NoDate == -1
HoursPerDay == 24

Variants == {"app", "app2", "app3"}

RequiredCols == {"Home_ID", "DateTime", "Temperature_C", "Humidity_pct",
                 "Light_Lux", "Motion_Sensor", "Room"}

energy_cols == <<"Appliance_Usage_kWh", "HVAC_Usage_kWh", "Water_Heater_kWh">>

EnergyColSet == {energy_cols[i] : i \in 1..Len(energy_cols)}

FullCols == RequiredCols \cup EnergyColSet

LatestN(v) == IF v = "app2" THEN 15 ELSE 20

MinRate == 5
MaxRate == 50
DefaultRate == 15

DateOf(t) == t \div HoursPerDay

HourOf(t) == t % HoursPerDay

Min(a, b) == IF a <= b THEN a ELSE b

----------------------------------------------------------------------------
(* The CSV files a session is checked on *)

Cell(dt, room, motion, a, h, w) ==
    [DateTime |-> dt, Room |-> room, Motion_Sensor |-> motion,
     Temperature_C |-> 20 + (HourOf(IF dt < 0 THEN 0 ELSE dt) % 3),
     Humidity_pct |-> 40,
     Appliance_Usage_kWh |-> a, HVAC_Usage_kWh |-> h, Water_Heater_kWh |-> w,
     Total_Energy_kWh |-> 9]

RoomNames == {"Bedroom", "Kitchen"}

MotionStates == {"Active", "Inactive"}

(* Two days, two rooms, both motion states; rows that share a timestamp,    *)
(* an hour or a room.                                                       *)
SmallCells ==
    {Cell(8, room, motion, 1, 2, 0) : room \in RoomNames, motion \in MotionStates}
    \cup {Cell(33, "Kitchen", "Active", 1, 2, 0), Cell(33, "Bedroom", "Inactive", 1, 2, 0)}

BadCell == Cell(BadText, "Kitchen", "Active", 1, 2, 0)

(* Files with a row whose DateTime does not parse *)
BadFiles ==
    {<<BadCell>>, <<BadCell, BadCell>>}
    \cup {<<BadCell, c>> : c \in SmallCells}
    \cup {<<c, BadCell>> : c \in SmallCells}
    \cup {<<c, BadCell, Cell(8, "Bedroom", "Active", 1, 2, 0)>> : c \in SmallCells}

SeqsUpTo(S, n) == UNION {[1..k -> S] : k \in 0..n}

SmallFiles == SeqsUpTo(SmallCells, MaxRows)

EnergyCells ==
    {Cell(8, "Kitchen", "Active", a, h, w) :
        a \in {2, NaN, Text}, h \in {0, NaN, Text}, w \in {3, NaN}}

EnergyFiles == {<<c>> : c \in EnergyCells}

EnergyColumnSets ==
    {FullCols, FullCols \cup {"Total_Energy_kWh"},
     FullCols \ {"HVAC_Usage_kWh"}, FullCols \ EnergyColSet,
     (FullCols \ EnergyColSet) \cup {"Total_Energy_kWh"}}

ColumnFiles ==
    {<<Cell(8, "Kitchen", "Active", 1, 2, 0),
       Cell(33, "Bedroom", "Inactive", 1, 2, 0)>>,
     <<Cell(8, "Kitchen", "Inactive", 1, 2, 0)>>}

MissingColumnSets == {FullCols \ {c} : c \in RequiredCols}

(* Long files: row i is in room i mod 2; in pattern 1 the timestamps fall  *)
(* (the file is in reverse time order) and are all distinct, in pattern 2  *)
(* consecutive rows share a timestamp.                                     *)
LongCell(i, n, p) ==
    Cell(IF p = 1 THEN (n - i) + (IF n - i >= 12 THEN 12 ELSE 0)
                  ELSE ((n - i) \div 2) + (IF n - i >= 12 THEN 18 ELSE 0),
         IF i % 2 = 0 THEN "Kitchen" ELSE "Bedroom",
         IF i % 3 = 0 THEN "Inactive" ELSE "Active", 1, 2, 0)

LongFiles ==
    {[i \in 1..n |-> LongCell(i, n, p)] : n \in (MaxLong - 7)..MaxLong, p \in {1, 2}}

Files ==
    {[cols |-> FullCols, rows |-> f] : f \in SmallFiles \cup BadFiles \cup LongFiles}
    \cup {[cols |-> c, rows |-> f] : c \in EnergyColumnSets, f \in EnergyFiles}
    \cup {[cols |-> c, rows |-> f] : c \in MissingColumnSets, f \in ColumnFiles}

----------------------------------------------------------------------------
(* pandas helpers *)

ToDatetimeCoerce(v) == IF v = BadText THEN NaT ELSE v

ToNumericCoerce(v) == IF v = Text THEN NaN ELSE v

SkipNa(v) == IF v = NaN THEN 0 ELSE v

(* read_csv: every row gets its position as index *)
ReadCsv(rows) ==
    [i \in 1..Len(rows) |->
        [idx |-> i - 1,
         DateTime |-> rows[i].DateTime, Room |-> rows[i].Room,
         Motion_Sensor |-> rows[i].Motion_Sensor,
         Temperature_C |-> rows[i].Temperature_C,
         Humidity_pct |-> rows[i].Humidity_pct,
         Appliance_Usage_kWh |-> rows[i].Appliance_Usage_kWh,
         HVAC_Usage_kWh |-> rows[i].HVAC_Usage_kWh,
         Water_Heater_kWh |-> rows[i].Water_Heater_kWh,
         Total_Energy_kWh |-> rows[i].Total_Energy_kWh,
         Date |-> NoDate, Hour |-> NaN]]

InsertAsc(s, r) ==
    LET k == Cardinality({i \in 1..Len(s) : s[i].DateTime <= r.DateTime})
    IN  SubSeq(s, 1, k) \o <<r>> \o SubSeq(s, k + 1, Len(s))

RECURSIVE SortAsc(_)
SortAsc(s) ==
    IF s = <<>> THEN <<>>
    ELSE InsertAsc(SortAsc(SubSeq(s, 1, Len(s) - 1)), s[Len(s)])

InsertDesc(s, r) ==
    LET k == Cardinality({i \in 1..Len(s) : s[i].DateTime >= r.DateTime})
    IN  SubSeq(s, 1, k) \o <<r>> \o SubSeq(s, k + 1, Len(s))

RECURSIVE SortDesc(_)
SortDesc(s) ==
    IF s = <<>> THEN <<>>
    ELSE InsertDesc(SortDesc(SubSeq(s, 1, Len(s) - 1)), s[Len(s)])

HeadN(s, n) == SubSeq(s, 1, Min(n, Len(s)))

TailN(s, n) == SubSeq(s, Len(s) - Min(n, Len(s)) + 1, Len(s))

DropNaT(s) == SelectSeq(s, LAMBDA r : r.DateTime # NaT)

ResetIndex(s) == [i \in 1..Len(s) |-> [s[i] EXCEPT !.idx = i - 1]]

RECURSIVE SumCol(_, _)
SumCol(s, c) ==
    IF s = <<>> THEN 0
    ELSE SkipNa(s[Len(s)][c]) + SumCol(SubSeq(s, 1, Len(s) - 1), c)

(* Series.mean(): NaN (n = 0) over no values *)
MeanCol(s, c) == [sum |-> SumCol(s, c), n |-> Len(s)]

----------------------------------------------------------------------------
(* Preprocessing: the three scripts *)

Msg(kind, col) == [kind |-> kind, col |-> col]

NoMsg == Msg("none", "")

Outcome(st, m, rows, cs) == [status |-> st, msg |-> m, df |-> rows, cols |-> cs]

AddDateHour(s) ==
    [i \in 1..Len(s) |->
        [s[i] EXCEPT !.Date = DateOf(s[i].DateTime), !.Hour = HourOf(s[i].DateTime)]]

CoerceEnergy(s, cs) ==
    [i \in 1..Len(s) |->
        [c \in DOMAIN s[i] |->
            IF c \in EnergyColSet \cap cs THEN ToNumericCoerce(s[i][c]) ELSE s[i][c]]]

(* DataFrame.sum(axis=1): NaN skipped, 0 for a row of NaN *)
RowSum(r, cs) ==
    (IF "Appliance_Usage_kWh" \in cs THEN SkipNa(r.Appliance_Usage_kWh) ELSE 0)
    + (IF "HVAC_Usage_kWh" \in cs THEN SkipNa(r.HVAC_Usage_kWh) ELSE 0)
    + (IF "Water_Heater_kWh" \in cs THEN SkipNa(r.Water_Heater_kWh) ELSE 0)

SetTotal(s, cs) ==
    [i \in 1..Len(s) |-> [s[i] EXCEPT !.Total_Energy_kWh = RowSum(s[i], cs)]]

ZeroTotal(s) == [i \in 1..Len(s) |-> [s[i] EXCEPT !.Total_Energy_kWh = 0]]

FirstMissing(seq, cs) ==
    seq[CHOOSE i \in 1..Len(seq) :
            /\ seq[i] \notin cs
            /\ \A j \in 1..(i - 1) : seq[j] \in cs]

Derived == {"Date", "Hour", "Total_Energy_kWh"}

(* app.py 38-54: to_datetime raises on text it cannot parse; a supplied    *)
(* Total_Energy_kWh column is kept; df[energy_cols] needs all three.       *)
PreprocessApp(rows, cs) ==
    IF "DateTime" \notin cs
    THEN Outcome("crashed", Msg("exception", "DateTime"), rows, cs)
    ELSE IF \E i \in 1..Len(rows) : rows[i].DateTime = BadText
    THEN Outcome("crashed", Msg("exception", ""), rows, cs)
    ELSE LET sorted == CoerceEnergy(AddDateHour(SortAsc(rows)), cs)
         IN  IF "Total_Energy_kWh" \in cs
             THEN Outcome("running", NoMsg, sorted, cs \cup Derived)
             ELSE IF ~(EnergyColSet \subseteq cs)
             THEN Outcome("crashed", Msg("exception", FirstMissing(energy_cols, cs)),
                          sorted, cs \cup {"Date", "Hour"})
             ELSE Outcome("running", NoMsg, SetTotal(sorted, EnergyColSet),
                          cs \cup Derived)

Coerced(rows) ==
    [i \in 1..Len(rows) |->
        [rows[i] EXCEPT !.DateTime = ToDatetimeCoerce(rows[i].DateTime)]]

(* dropna(subset=['DateTime']).sort_values('DateTime').reset_index(drop=True) *)
Normalize(rows) == ResetIndex(SortAsc(DropNaT(Coerced(rows))))

(* app2.py 48-57 *)
PreprocessApp2(rows, cs) ==
    IF "DateTime" \notin cs
    THEN Outcome("crashed", Msg("exception", "DateTime"), rows, cs)
    ELSE LET sorted == CoerceEnergy(AddDateHour(Normalize(rows)), cs)
         IN  IF ~(EnergyColSet \subseteq cs)
             THEN Outcome("crashed", Msg("exception", FirstMissing(energy_cols, cs)),
                          sorted, cs \cup {"Date", "Hour"})
             ELSE Outcome("running", NoMsg, SetTotal(sorted, EnergyColSet),
                          cs \cup Derived)

RequiredCheck == <<"Temperature_C", "Humidity_pct", "Motion_Sensor", "Room">>

(* app3.py 33-59: the try block; st.stop() is not caught by except Exception *)
PreprocessApp3(rows, cs) ==
    IF "DateTime" \notin cs
    THEN Outcome("stopped", Msg("error_processing", "DateTime"), rows, cs)
    ELSE LET sorted == CoerceEnergy(AddDateHour(Normalize(rows)), cs)
             present == EnergyColSet \cap cs
             total == IF present # {} THEN SetTotal(sorted, present)
                      ELSE ZeroTotal(sorted)
         IN  IF \E i \in 1..Len(RequiredCheck) : RequiredCheck[i] \notin cs
             THEN Outcome("stopped",
                          Msg("error_missing", FirstMissing(RequiredCheck, cs)),
                          total, cs \cup Derived)
             ELSE Outcome("running", NoMsg, total, cs \cup Derived)

Preprocessed(v, rows, cs) ==
    IF v = "app" THEN PreprocessApp(rows, cs)
    ELSE IF v = "app2" THEN PreprocessApp2(rows, cs)
    ELSE PreprocessApp3(rows, cs)

----------------------------------------------------------------------------
(* Faulty variants of definitions below: each property is also checked     *)
(* with one of them in place of the definition, and must then fail.        *)

(* an exclusive upper end of the date range *)
InRangeUpperExclusive(d, c) == d < c.end

(* a room filter that slices off the first row before selecting *)
RoomFilterSkipsFirst(rows, c) ==
    IF c.room # "All"
    THEN SelectSeq(SubSeq(rows, 2, Len(rows)), LAMBDA r : r.Room = c.room)
    ELSE SubSeq(rows, 2, Len(rows))

(* filters that read the view left by the previous step, not the dataset *)
FilterSourceStale(frame, view) == view

(* an aggregation that counts every row of the group *)
AggCountsRows(group) == Len(group)

(* head(n) without the descending sort *)
LatestRowsOldest(v, rows) == HeadN(rows, LatestN(v))

----------------------------------------------------------------------------
(* Sidebar widgets and filters *)

Range(s) == {s[i] : i \in 1..Len(s)}

RoomsOf(s) == {s[i].Room : i \in 1..Len(s)}

DatesOf(s) == {s[i].Date : i \in 1..Len(s)}

HoursOf(s) == {s[i].Hour : i \in 1..Len(s)}

MinOf(S) == IF S = {} THEN NoDate ELSE CHOOSE x \in S : \A y \in S : x <= y

MaxOf(S) == IF S = {} THEN NoDate ELSE CHOOSE x \in S : \A y \in S : y <= x

MotionChoices == {"All", "Active Only", "Inactive Only"}

(* number_input("Rate $/kWh", 0.05, 0.50, 0.15, 0.01), in hundredths *)
Rates(v) == IF v = "app2" THEN {DefaultRate, MaxRate} ELSE {0}

Unset == [room |-> "", start |-> NoDate, end |-> NoDate, motion |-> "", rate |-> 0]

(* The widgets' values on the first run of a session *)
Defaults(v, rows) ==
    [room |-> "All", start |-> MinOf(DatesOf(rows)), end |-> MaxOf(DatesOf(rows)),
     motion |-> "All", rate |-> IF v = "app2" THEN DefaultRate ELSE 0]

(* What the user can set the widgets to *)
Choices(v, rows) ==
    LET dates == IF rows = <<>> THEN {NoDate} ELSE DatesOf(rows)
    IN  {c \in [room : {"All"} \cup RoomsOf(rows), start : dates, end : dates,
                 motion : MotionChoices, rate : Rates(v)] : c.start <= c.end}

InRangeUpper(d, c) == d <= c.end

DateFilter(rows, c) ==
    SelectSeq(rows, LAMBDA r : r.Date >= c.start /\ InRangeUpper(r.Date, c))

(* app.py 81-84 reads the date off DateTime *)
DateFilterApp(rows, c) ==
    SelectSeq(rows, LAMBDA r : DateOf(r.DateTime) >= c.start
                               /\ InRangeUpper(DateOf(r.DateTime), c))

RoomFilter(rows, c) ==
    IF c.room # "All" THEN SelectSeq(rows, LAMBDA r : r.Room = c.room) ELSE rows

MotionFilter(rows, c) ==
    IF c.motion = "Active Only"
    THEN SelectSeq(rows, LAMBDA r : r.Motion_Sensor = "Active")
    ELSE IF c.motion = "Inactive Only"
    THEN SelectSeq(rows, LAMBDA r : r.Motion_Sensor = "Inactive")
    ELSE rows

(* app2.py 72-73 *)
MotionFilter2(rows, c) ==
    IF c.motion # "All"
    THEN SelectSeq(rows, LAMBDA r : r.Motion_Sensor =
                        (IF c.motion = "Active Only" THEN "Active" ELSE "Inactive"))
    ELSE rows

ApplyFilters(v, rows, c) ==
    IF v = "app" THEN MotionFilter(DateFilterApp(RoomFilter(rows, c), c), c)
    ELSE IF v = "app2" THEN MotionFilter2(RoomFilter(DateFilter(rows, c), c), c)
    ELSE MotionFilter(RoomFilter(DateFilter(rows, c), c), c)

(* The frame the filters read: df (data = df.copy(), df[...]) *)
FilterSource(frame, view) == frame

(* Whether the script stops on an empty filtered subset *)
StopsOnEmpty(v) == v # "app2"

----------------------------------------------------------------------------
(* Metrics, pivot, latest table *)

ActiveRows(rows) == SelectSeq(rows, LAMBDA r : r.Motion_Sensor = "Active")

ActiveRooms(rows) == Cardinality(RoomsOf(ActiveRows(rows)))

Slot(label, value) == [label |-> label, value |-> value]

Metrics(v, rows, c) ==
    LET total == SumCol(rows, "Total_Energy_kWh")
        temp == MeanCol(rows, "Temperature_C")
        hum == MeanCol(rows, "Humidity_pct")
    IN  IF v = "app"
        THEN <<Slot("Total Energy Today", total),
               Slot("Active Rooms", ActiveRooms(rows)),
               Slot("Avg Temperature", temp), Slot("Avg Humidity", hum)>>
        ELSE IF v = "app2"
        THEN <<Slot("Total Energy", total),
               Slot("Estimated Cost", total * c.rate),
               Slot("Active Rooms", ActiveRooms(rows)),
               Slot("Avg Comfort", [temp |-> temp, hum |-> hum])>>
        ELSE <<Slot("Total Energy", total),
               Slot("Active Readings", Len(ActiveRows(rows))),
               Slot("Avg Temp", temp), Slot("Avg Humidity", hum)>>

(* aggfunc of pivot_table: (x == 'Active').sum() over one (Hour, Room) group *)
AggActive(group) == Len(ActiveRows(group))

(* pivot_table(index='Hour', columns='Room', values='Motion_Sensor',        *)
(* aggfunc, fill_value=0): one group per observed (Hour, Room), unstacked   *)
(* over the observed hours and rooms, 0 where there is no group.            *)
MotionPivot(rows) ==
    LET keys == {<<rows[i].Hour, rows[i].Room>> : i \in 1..Len(rows)}
        grouped == [k \in keys |->
                       AggActive(SelectSeq(rows, LAMBDA r : r.Hour = k[1] /\ r.Room = k[2]))]
    IN  [index |-> HoursOf(rows), columns |-> RoomsOf(rows),
         cell |-> [k \in HoursOf(rows) \X RoomsOf(rows) |->
                      IF k \in keys THEN grouped[k] ELSE 0]]

NoPivot == [index |-> {}, columns |-> {}, cell |-> [k \in {} \X {} |-> 0]]

(* app.py 186, app3.py 182: sort_values(ascending=False).head(20);          *)
(* app2.py 153: tail(15).sort_values(ascending=False)                       *)
LatestRows(v, rows) ==
    IF v = "app2" THEN SortDesc(TailN(rows, LatestN(v)))
    ELSE HeadN(SortDesc(rows), LatestN(v))

----------------------------------------------------------------------------
(* The columns each step of a run reads, in the order the script reads them *)

Needs(v, step) ==
    IF step = "sidebar"
    THEN (IF v = "app3" THEN <<"Room">> ELSE <<"Room", "DateTime">>)
    ELSE IF step = "metrics"
    THEN (IF v = "app" THEN <<"Room", "Motion_Sensor", "Temperature_C", "Humidity_pct">>
          ELSE IF v = "app2"
          THEN <<"Motion_Sensor", "Room", "Temperature_C", "Humidity_pct">>
          ELSE <<"Motion_Sensor", "Temperature_C", "Humidity_pct">>)
    ELSE IF step = "charts"
    THEN <<"DateTime", "Room", "Temperature_C", "Humidity_pct">>
    ELSE IF step = "pivot"
    THEN <<"Room", "Motion_Sensor">>
    ELSE IF step = "tabs"
    THEN (IF v = "app2"
          THEN <<"Room", "Temperature_C", "Humidity_pct", "Light_Lux", "Motion_Sensor">>
          ELSE <<"Room", "Temperature_C", "Humidity_pct">>)
    ELSE IF step = "table"
    THEN (IF v = "app3"
          THEN <<"DateTime", "Home_ID", "Room", "Temperature_C", "Humidity_pct",
                 "Motion_Sensor">>
          ELSE <<"DateTime", "Home_ID", "Room", "Temperature_C", "Humidity_pct",
                 "Light_Lux", "Motion_Sensor">>)
    ELSE <<>>

Lacks(v, step, cs) == \E i \in 1..Len(Needs(v, step)) : Needs(v, step)[i] \notin cs

KeyError(v, step, cs) == Msg("exception", FirstMissing(Needs(v, step), cs))

----------------------------------------------------------------------------
(* The session *)

Init ==
    /\ variant \in Variants
    /\ \E f \in Files : cols = f.cols /\ raw = f.rows
    /\ criteria = Unset
    /\ pc = "load"
    /\ status = "running"
    /\ msg = NoMsg
    /\ df = <<>>
    /\ dfcols = {}
    /\ data = <<>>
    /\ metrics = <<>>
    /\ pivot = NoPivot
    /\ latest = <<>>
    /\ rendered = {}
    /\ cached = FALSE
    /\ normalized = FALSE

At(step) == pc = step /\ status = "running"

(* load_data() under @st.cache_data: the first call (and the first after  *)
(* the entry expired) reads the CSV, a new load; later calls return the    *)
(* memoized raw frame.                                                      *)
Load ==
    /\ At("load")
    /\ df' = ReadCsv(raw)
    /\ cached' = TRUE
    /\ normalized' = IF cached THEN normalized ELSE FALSE
    /\ dfcols' = cols
    /\ pc' = "preprocess"
    /\ rendered' = rendered \cup {"load"}
    /\ UNCHANGED <<variant, cols, raw, criteria, status, msg, data, metrics, pivot, latest>>

Preprocess ==
    /\ At("preprocess")
    /\ LET o == Preprocessed(variant, df, dfcols)
       IN  /\ df' = o.df
           /\ dfcols' = o.cols
           /\ status' = o.status
           /\ msg' = o.msg
           /\ pc' = IF o.status = "running" THEN "sidebar" ELSE pc
           /\ rendered' = IF o.status = "running" THEN rendered \cup {"preprocess"}
                          ELSE rendered
    /\ normalized' = TRUE
    /\ UNCHANGED cached
    /\ UNCHANGED <<variant, cols, raw, criteria, data, metrics, pivot, latest>>

Fail(m) ==
    /\ status' = "crashed"
    /\ msg' = m
    /\ pc' = pc

(* Sidebar widgets, the filters and the empty check *)
Sidebar ==
    /\ At("sidebar")
    /\ LET c == IF criteria = Unset THEN Defaults(variant, df) ELSE criteria
           view == ApplyFilters(variant, FilterSource(df, data), c)
       IN  IF Lacks(variant, "sidebar", dfcols)
           THEN /\ Fail(KeyError(variant, "sidebar", dfcols))
                /\ UNCHANGED <<criteria, data, rendered>>
           ELSE IF c.motion # "All" /\ "Motion_Sensor" \notin dfcols
           THEN /\ Fail(Msg("exception", "Motion_Sensor"))
                /\ criteria' = c
                /\ rendered' = rendered \cup {"sidebar"}
                /\ UNCHANGED data
           ELSE /\ criteria' = c
                /\ data' = view
                /\ rendered' = rendered \cup {"sidebar", "filter"}
                /\ IF view = <<>> /\ StopsOnEmpty(variant)
                   THEN /\ status' = "stopped"
                        /\ msg' = Msg("warning_empty", "")
                        /\ pc' = pc
                   ELSE /\ pc' = "metrics"
                        /\ UNCHANGED <<status, msg>>
    /\ UNCHANGED <<cached, normalized, variant, cols, raw, df, dfcols, metrics, pivot, latest>>

(* date_input over a frame with no rows is given NaT/nan bounds: whether   *)
(* the widget raises is the library's choice, so both outcomes are kept.   *)
SidebarDateInputFails ==
    /\ At("sidebar")
    /\ ~Lacks(variant, "sidebar", dfcols)
    /\ df = <<>>
    /\ Fail(Msg("exception", ""))
    /\ UNCHANGED <<cached, normalized, variant, cols, raw, criteria, df, dfcols, data, metrics, pivot,
                   latest, rendered>>

ShowMetrics ==
    /\ At("metrics")
    /\ IF Lacks(variant, "metrics", dfcols)
       THEN /\ Fail(KeyError(variant, "metrics", dfcols))
            /\ UNCHANGED <<metrics, rendered>>
       ELSE /\ metrics' = Metrics(variant, data, criteria)
            /\ pc' = "charts"
            /\ rendered' = rendered \cup {"metrics"}
            /\ UNCHANGED <<status, msg>>
    /\ UNCHANGED <<cached, normalized, variant, cols, raw, criteria, df, dfcols, data, pivot, latest>>

(* Energy over time, temperature and humidity *)
Charts ==
    /\ At("charts")
    /\ IF Lacks(variant, "charts", dfcols)
       THEN /\ Fail(KeyError(variant, "charts", dfcols))
            /\ UNCHANGED rendered
       ELSE /\ pc' = "pivot"
            /\ rendered' = rendered \cup {"charts"}
            /\ UNCHANGED <<status, msg>>
    /\ UNCHANGED <<cached, normalized, variant, cols, raw, criteria, df, dfcols, data, metrics, pivot, latest>>

Pivot ==
    /\ At("pivot")
    /\ IF Lacks(variant, "pivot", dfcols)
       THEN /\ Fail(KeyError(variant, "pivot", dfcols))
            /\ UNCHANGED <<pivot, rendered>>
       ELSE /\ pivot' = MotionPivot(data)
            /\ pc' = "tabs"
            /\ rendered' = rendered \cup {"pivot"}
            /\ UNCHANGED <<status, msg>>
    /\ UNCHANGED <<cached, normalized, variant, cols, raw, criteria, df, dfcols, data, metrics, latest>>

(* app2.py 122-126 pivots and draws a subset with no rows: whether          *)
(* pivot_table or imshow raises on it is the library's choice.              *)
PivotOfNothingFails ==
    /\ At("pivot")
    /\ ~Lacks(variant, "pivot", dfcols)
    /\ data = <<>>
    /\ Fail(Msg("exception", ""))
    /\ UNCHANGED <<cached, normalized, variant, cols, raw, criteria, df, dfcols, data, metrics, pivot,
                   latest, rendered>>

(* Room comparison tabs *)
Tabs ==
    /\ At("tabs")
    /\ IF Lacks(variant, "tabs", dfcols)
       THEN /\ Fail(KeyError(variant, "tabs", dfcols))
            /\ UNCHANGED rendered
       ELSE /\ pc' = "table"
            /\ rendered' = rendered \cup {"tabs"}
            /\ UNCHANGED <<status, msg>>
    /\ UNCHANGED <<cached, normalized, variant, cols, raw, criteria, df, dfcols, data, metrics, pivot, latest>>

Table ==
    /\ At("table")
    /\ IF Lacks(variant, "table", dfcols)
       THEN /\ Fail(KeyError(variant, "table", dfcols))
            /\ UNCHANGED <<latest, rendered>>
       ELSE /\ latest' = LatestRows(variant, data)
            /\ pc' = "download"
            /\ rendered' = rendered \cup {"table"}
            /\ UNCHANGED <<status, msg>>
    /\ UNCHANGED <<cached, normalized, variant, cols, raw, criteria, df, dfcols, data, metrics, pivot>>

Download ==
    /\ At("download")
    /\ pc' = "end"
    /\ status' = "done"
    /\ rendered' = rendered \cup {"download"}
    /\ UNCHANGED <<cached, normalized, variant, cols, raw, criteria, msg, df, dfcols, data, metrics,
                   pivot, latest>>

(* The user changes a widget: the script runs again from its first line,   *)
(* with fresh script variables; only the widgets' values are kept.         *)
Rerun ==
    /\ status # "running"
    /\ "sidebar" \in rendered
    /\ \E c \in Choices(variant, df) : criteria' = c
    /\ pc' = "load"
    /\ status' = "running"
    /\ msg' = NoMsg
    /\ df' = <<>>
    /\ dfcols' = {}
    /\ data' = <<>>
    /\ metrics' = <<>>
    /\ pivot' = NoPivot
    /\ latest' = <<>>
    /\ rendered' = {}
    /\ UNCHANGED <<cached, normalized, variant, cols, raw>>

(* @st.cache_data(ttl=3600) in app2.py and app3.py: between two runs the   *)
(* memoized frame may expire; app.py's entry has no ttl.                    *)
HasTtl(v) == v # "app"

Expire ==
    /\ HasTtl(variant)
    /\ cached
    /\ status # "running"
    /\ cached' = FALSE
    /\ UNCHANGED <<normalized, variant, cols, raw, criteria, pc, status, msg, df,
                   dfcols, data, metrics, pivot, latest, rendered>>

Next ==
    \/ Load
    \/ Preprocess
    \/ Sidebar
    \/ SidebarDateInputFails
    \/ ShowMetrics
    \/ Charts
    \/ Pivot
    \/ PivotOfNothingFails
    \/ Tabs
    \/ Table
    \/ Download
    \/ Rerun
    \/ Expire

Spec == Init /\ [][Next]_vars

----------------------------------------------------------------------------
(* Properties *)

Ran(step) == step \in rendered

PreprocessRan == pc # "load" /\ ~(pc = "preprocess" /\ status = "running")

Downstream == {"metrics", "charts", "pivot", "tabs", "table", "download"}

Matches(r, c) ==
    /\ c.room = "All" \/ r.Room = c.room
    /\ r.Date >= c.start
    /\ r.Date <= c.end
    /\ c.motion = "Active Only" => r.Motion_Sensor = "Active"
    /\ c.motion = "Inactive Only" => r.Motion_Sensor = "Inactive"

\* C1: once the filters have run, the filtered subset is exactly the rows of
\* the normalized dataset that satisfy the room, the inclusive date range and
\* the motion predicate together, in the dataset's order.
C1_FilterIsConjunction ==
    Ran("filter") => data = SelectSeq(df, LAMBDA r : Matches(r, criteria))

\* C1 witness: a specific room, a one-day range and "Active Only" keep some
\* rows and drop others, one of them for its date alone.
C1_Witness ==
    /\ Ran("filter")
    /\ criteria.room # "All"
    /\ criteria.motion = "Active Only"
    /\ data # <<>>
    /\ Len(data) < Len(df)
    /\ \E i \in 1..Len(df) :
          /\ df[i].Room = criteria.room
          /\ df[i].Motion_Sensor = "Active"
          /\ df[i].Date > criteria.end

\* C2 (for a file with all its columns and at least one row): a run whose filtered
\* subset is empty ends at the empty check, stopped with the "no matching
\* rows" warning, and no downstream step has run.
C2_EmptyStopsWithWarning ==
    (Ran("filter") /\ cols = FullCols /\ df # <<>> /\ data = <<>>)
        => /\ status = "stopped"
           /\ msg.kind = "warning_empty"
           /\ pc = "sidebar"
           /\ rendered \cap Downstream = {}

SortedAsc(s) == \A i \in 1..(Len(s) - 1) : s[i].DateTime <= s[i + 1].DateTime

Count(s, t) == Cardinality({i \in 1..Len(s) : s[i].DateTime = t})

\* C3: for a file with all its columns, preprocessing does not halt on a
\* timestamp that does not parse; afterwards the dataset holds exactly the
\* rows whose DateTime parsed, none with a null timestamp, sorted ascending.
C3_ParsedAndSorted ==
    (PreprocessRan /\ cols = FullCols)
        => /\ ~(pc = "preprocess" /\ status # "running")
           /\ \A i \in 1..Len(df) : df[i].DateTime \notin {NaT, BadText}
           /\ SortedAsc(df)
           /\ \A i \in 1..Len(raw) :
                 raw[i].DateTime # BadText
                     => Count(df, raw[i].DateTime) = Count(raw, raw[i].DateTime)
           /\ Len(df) = Cardinality({i \in 1..Len(raw) : raw[i].DateTime # BadText})

CellValue(v) == IF v \in {NaN, Text} THEN 0 ELSE v

\* C4: for a file with every required column, preprocessing gives every row
\* a Total_Energy_kWh equal to the sum of its present sub-metric columns
\* (missing and non-numeric cells as 0; 0 with no sub-metric column), never
\* negative, recomputed whether or not the file supplies a total.
C4_TotalIsSumOfSubMetrics ==
    (PreprocessRan /\ RequiredCols \subseteq cols)
        => /\ ~(pc = "preprocess" /\ status # "running")
           /\ "Total_Energy_kWh" \in dfcols
           /\ \A i \in 1..Len(df) :
                 /\ df[i].Total_Energy_kWh =
                        (IF "Appliance_Usage_kWh" \in cols
                         THEN CellValue(df[i].Appliance_Usage_kWh) ELSE 0)
                        + (IF "HVAC_Usage_kWh" \in cols
                           THEN CellValue(df[i].HVAC_Usage_kWh) ELSE 0)
                        + (IF "Water_Heater_kWh" \in cols
                           THEN CellValue(df[i].Water_Heater_kWh) ELSE 0)
                 /\ df[i].Total_Energy_kWh >= 0

\* C5 (for app3.py, the script with the required-column check): a file that
\* lacks a required column stops the run in preprocessing, before the
\* filters, with an error that names a missing column.
C5_MissingColumnNamed ==
    (variant = "app3" /\ PreprocessRan /\ ~(RequiredCols \subseteq cols))
        => /\ pc = "preprocess"
           /\ status = "stopped"
           /\ msg.kind \in {"error_missing", "error_processing"}
           /\ msg.col \in RequiredCols \ cols

RECURSIVE SumOver(_, _)
SumOver(f, S) ==
    IF S = {} THEN 0
    ELSE LET k == CHOOSE x \in S : TRUE IN f[k] + SumOver(f, S \ {k})

\* C6: for a non-empty filtered subset, the motion pivot is a grid over the
\* observed hours and rooms whose cells sum to the number of rows of the
\* subset with Motion_Sensor = "Active".
C6_PivotSumsToActiveRows ==
    (Ran("pivot") /\ data # <<>>)
        => /\ DOMAIN pivot.cell = HoursOf(data) \X RoomsOf(data)
           /\ SumOver(pivot.cell, DOMAIN pivot.cell) = Len(ActiveRows(data))

\* C6 witness: a pivot over a subset with Active and Inactive rows that has
\* a cell filled with 0 for an (hour, room) pair no row has.
C6_Witness ==
    /\ Ran("pivot")
    /\ Len(ActiveRows(data)) > 0
    /\ Len(ActiveRows(data)) < Len(data)
    /\ \E k \in DOMAIN pivot.cell :
          /\ pivot.cell[k] = 0
          /\ \A i \in 1..Len(data) : <<data[i].Hour, data[i].Room>> # k

LatestIsTopN ==
    /\ Len(latest) = Min(LatestN(variant), Len(data))
    /\ Range(latest) \subseteq Range(data)
    /\ Cardinality(Range(latest)) = Len(latest)
    /\ \A r \in Range(data) \ Range(latest) :
          \A l \in Range(latest) : r.DateTime <= l.DateTime

\* C7 as stated: the latest-readings table has at most n rows (20, or 15 in
\* app2.py), all of the filtered subset, the n with the greatest timestamps,
\* in strictly descending timestamp order.
C7_LatestStrictlyDescending ==
    Ran("table")
        => /\ LatestIsTopN
           /\ \A i \in 1..(Len(latest) - 1) :
                 latest[i].DateTime > latest[i + 1].DateTime

\* C7 amended: the same, with the rows in non-increasing timestamp order
\* (rows that share a timestamp are adjacent).
C7_LatestDescending ==
    Ran("table")
        => /\ LatestIsTopN
           /\ \A i \in 1..(Len(latest) - 1) :
                 latest[i].DateTime >= latest[i + 1].DateTime

\* C7 witness: a subset longer than n is cut to n rows, two of which share
\* a timestamp.
C7_Witness ==
    /\ Ran("table")
    /\ Len(data) > LatestN(variant)
    /\ Len(latest) = LatestN(variant)
    /\ \E i \in 1..(Len(latest) - 1) : latest[i].DateTime = latest[i + 1].DateTime

\* C8 (app.py and app3.py, the scripts the claim cites): the second metric
\* slot shows the number of distinct rooms among the Active rows of the
\* subset, which is at most the number of distinct rooms of the subset.
C8_SecondSlotIsActiveRooms ==
    (Ran("metrics") /\ variant \in {"app", "app3"})
        => /\ metrics[2].value = ActiveRooms(data)
           /\ metrics[2].value <= Cardinality(RoomsOf(data))

\* C9: filtering is idempotent: the filters applied with the same criteria
\* to the filtered subset return the same rows in the same order.
C9_FilterIdempotent ==
    Ran("filter") => ApplyFilters(variant, data, criteria) = data

\* C9 witness: a room is selected and the filters kept some rows and dropped
\* others.
C9_Witness ==
    /\ Ran("filter")
    /\ criteria.room # "All"
    /\ data # <<>>
    /\ Len(data) < Len(df)

NormalizedOf == Preprocessed(variant, ReadCsv(raw), cols).df

ViewOf == ApplyFilters(variant, NormalizedOf, criteria)

\* C10: in every cycle of a session, whatever the criteria of the earlier
\* cycles, the filtered subset, metrics, pivot and latest table that have
\* been rendered are those computed from the file's normalized dataset and
\* the current criteria alone.
C10_ViewFromDatasetAndCriteria ==
    /\ Ran("filter") => data = ViewOf
    /\ Ran("metrics") => metrics = Metrics(variant, ViewOf, criteria)
    /\ Ran("pivot") => pivot = MotionPivot(ViewOf)
    /\ Ran("table") => latest = LatestRows(variant, ViewOf)

\* C10 witness: a cycle after a change of criteria ran to its end on a
\* subset smaller than the dataset.
C10_Witness ==
    /\ status = "done"
    /\ criteria # Defaults(variant, df)
    /\ data # <<>>
    /\ Len(data) < Len(df)

\* C11: normalization is performed once per dataset load: while the loaded
\* dataset is the same (the cache entry was not replaced by a new read of
\* the file), no run of the script executes the preprocessing step on it a
\* second time.
C11_NormalizedOncePerLoad == [][normalized => ~Preprocess]_vars

====
